---------------------------- MODULE Spec2Model ----------------------------
(***************************************************************************)
(* Exam seating arrangement: the registration builder, the capacity        *)
(* planner, the clash detector, the per-slot allocation engine and the     *)
(* report aggregator of seating_arrangement.py, as a state machine.        *)
(*                                                                         *)
(* Strings of the program (course codes, roll numbers, building codes,     *)
(* room identifiers, slot labels) are strings here; Python's string order  *)
(* (used by sorted() and by pandas groupby) is given by Ord.               *)
(***************************************************************************)
EXTENDS Integers, Sequences, FiniteSets, TLC

(***************************************************************************)
(* Bounds of the model.                                                    *)
(***************************************************************************)
\* largest raw "Exam Capacity" of a room row
MaxCapacity == 2
\* largest --buffer tried by the capacity planner's own specification
MaxBuffer == 4

(***************************************************************************)
(* Name spaces.                                                            *)
(***************************************************************************)
Courses   == {"A", "B"}
Rolls     == {"R1", "R2"}
\* the rooms of the campus, as (building, room identifier): two rooms of one
\* building, and a room of another building with the identifier of the first
RoomKeys  == {<<"B1", "1">>, <<"B1", "2">>, <<"B2", "1">>}
Modes     == {"dense", "sparse"}
Dates     == {"D1"}
SlotLabels == <<"morning", "evening">>

\* The tables are as long as the name spaces make useful: a room sheet has at
\* most one row per room of the campus (a key may still repeat), a slot at
\* most one registration per roll and one more (a duplicate, or a second
\* course), and the course-roll mapping of a whole run one row per course.
MaxRoomRows == Cardinality(RoomKeys)
MaxRegs     == Cardinality(Rolls) + 1
MaxRunRows  == Cardinality(Courses)

\* Python's order of the strings the model uses (str.__lt__).
Ord(s) ==
    CASE s = "A" -> 1 [] s = "B" -> 2 [] s = "C" -> 3
      [] s = "R1" -> 1 [] s = "R2" -> 2 [] s = "R3" -> 3
      [] s = "B1" -> 1 [] s = "B2" -> 2
      [] s = "1" -> 1 [] s = "2" -> 2 [] s = "3" -> 3
      [] s = "evening" -> 1 [] s = "morning" -> 2
      [] s = "D1" -> 1 [] s = "D2" -> 2
      [] OTHER -> 0

Min(a, b) == IF a <= b THEN a ELSE b
Max(a, b) == IF a >= b THEN a ELSE b

RECURSIVE SumSeq(_)
SumSeq(s) == IF s = <<>> THEN 0 ELSE Head(s) + SumSeq(Tail(s))

Range(s) == {s[i] : i \in DOMAIN s}

Front(s) == SubSeq(s, 1, Len(s) - 1)

\* s[:n] and s[n:] of Python
Take(s, n) == SubSeq(s, 1, n)
Drop(s, n) == SubSeq(s, n + 1, Len(s))

\* sequences over S of length lo..hi
SeqsOf(S, lo, hi) == UNION {[1..n -> S] : n \in lo..hi}

(***************************************************************************)
(* sorted(): a stable sort of a sequence of records by their integer       *)
(* field k, ascending.  sorted(..., reverse=True) is stable too: it is     *)
(* the stable ascending sort by the negated key.                           *)
(***************************************************************************)
InsertByKey(sorted, e) ==
    LET later == {i \in DOMAIN sorted : sorted[i].k > e.k}
        p == IF later = {} THEN Len(sorted) + 1
             ELSE CHOOSE i \in later : \A j \in later : i <= j
    IN  Take(sorted, p - 1) \o <<e>> \o Drop(sorted, p - 1)

RECURSIVE SortByKey(_)
SortByKey(s) ==
    IF s = <<>> THEN <<>> ELSE InsertByKey(SortByKey(Front(s)), s[Len(s)])

\* the values of a sequence, stably sorted by the key Key[v]
Values(s) == [i \in DOMAIN s |-> s[i].v]

(***************************************************************************)
(* State.  The inputs are the four sheets of the workbook and the two run  *)
(* parameters; the other variables are the locals of main() and of         *)
(* allocate_for_slot(), and pc is the position in the program.             *)
(***************************************************************************)
VARIABLES
    pc,
    \* inputs
    tt_df, cr_df, class_df, buffer, mode, roll_to_name,
    \* main()
    reg_df, rooms_info, groups, date, slot, slot_df,
    all_allocations, per_slot_room_caps, signals,
    \* allocate_for_slot()
    course_to_rolls, room_caps, building_rooms, total_capacity,
    sorted_courses, ci, remaining, single_building_found, chosen_building,
    loop_keys, ki, allocations,
    \* build_overall_and_seats(), generate_all_attendance_pdfs()
    overall_agg_df, seats_rows, pdf_units

inputs == <<tt_df, cr_df, class_df, buffer, mode, roll_to_name>>
mainv  == <<reg_df, rooms_info, groups, date, slot, slot_df,
            all_allocations, per_slot_room_caps>>
allocv == <<course_to_rolls, room_caps, building_rooms, total_capacity,
            sorted_courses, ci, remaining, single_building_found,
            chosen_building, loop_keys, ki, allocations>>
outv   == <<overall_agg_df, seats_rows, pdf_units>>
vars   == <<pc, inputs, mainv, signals, allocv, outv>>

\* the locals of allocate_for_slot before it is first called
AllocIdle ==
    /\ course_to_rolls = <<>> /\ room_caps = <<>> /\ building_rooms = <<>>
    /\ total_capacity = 0 /\ sorted_courses = <<>> /\ ci = 0
    /\ remaining = <<>> /\ single_building_found = FALSE
    /\ chosen_building = "" /\ loop_keys = <<>> /\ ki = 0
    /\ allocations = <<>>

OutIdle == overall_agg_df = <<>> /\ seats_rows = <<>> /\ pdf_units = <<>>

(***************************************************************************)
(* Capacity planner: compute_effective_capacities.                         *)
(***************************************************************************)
\* the buffer subtracted without the floor at 0
EffectiveCapacityUnclamped(cap, buf) == cap - buf

EffectiveCapacity(cap, buf) == Max(cap - buf, 0)

PerSubjectCapacity(effective, m) ==
    IF m = "sparse" THEN effective \div 2 ELSE effective

RoomInfo(row, buf, m) ==
    [building |-> row.building,
     room |-> row.room,
     capacity |-> row.capacity,
     effective_capacity |-> EffectiveCapacity(row.capacity, buf),
     per_subject_capacity |->
         PerSubjectCapacity(EffectiveCapacity(row.capacity, buf), m)]

compute_effective_capacities(cdf, buf, m) ==
    [i \in DOMAIN cdf |-> RoomInfo(cdf[i], buf, m)]


(***************************************************************************)
(* Registration builder: the loop of load_inputs_from_workbook that        *)
(* expands the timetable with the course-roll mapping.  A timetable cell   *)
(* is the list of tokens of cell_str.split(";"), each stripped; a NaN or   *)
(* blank cell is the empty list, and a cell that starts with "NO EXAM"     *)
(* has that marker as its first token.                                     *)
(***************************************************************************)
RECURSIVE Flatten(_)
Flatten(ss) == IF ss = <<>> THEN <<>> ELSE Head(ss) \o Flatten(Tail(ss))

\* cr_df.loc[cr_df["course_code"] == course, "rollno"]
RollsOfCourse(cr, course) ==
    LET rows == SelectSeq(cr, LAMBDA r : r.course_code = course)
    IN  [i \in DOMAIN rows |-> rows[i].rollno]

CellSkipped(cell) == cell = <<>> \/ cell[1] = "NO EXAM"

CourseCodes(cell) == SelectSeq(cell, LAMBDA c : c # "")

CellRegistrations(cr, d, label, cell) ==
    IF CellSkipped(cell) THEN <<>>
    ELSE LET codes == CourseCodes(cell)
         IN  Flatten([i \in DOMAIN codes |->
                 LET rolls == RollsOfCourse(cr, codes[i])
                 IN  [j \in DOMAIN rolls |->
                         [date |-> d, slot |-> label,
                          coursecode |-> codes[i], rollno |-> rolls[j]]]])

RowRegistrations(cr, row) ==
    CellRegistrations(cr, row.date, "morning", row.morning)
        \o CellRegistrations(cr, row.date, "evening", row.evening)

BuildRegistrations(tt, cr) ==
    Flatten([i \in DOMAIN tt |-> RowRegistrations(cr, tt[i])])

(***************************************************************************)
(* reg_df.groupby(["date", "slot"]): the group keys in ascending order,    *)
(* each group holding its rows in their original order.                    *)
(***************************************************************************)
SlotKeyOrd(key) == Ord(key[1]) * 10 + Ord(key[2])

\* a finite set of records [k, v] with distinct k, as the sequence ordered by k
RECURSIVE SeqOfSet(_)
SeqOfSet(S) ==
    IF S = {} THEN <<>>
    ELSE LET m == CHOOSE x \in S : \A y \in S : x.k <= y.k
         IN  <<m>> \o SeqOfSet(S \ {m})

GroupKeys(df) ==
    Values(SeqOfSet({[k |-> SlotKeyOrd(<<df[i].date, df[i].slot>>),
                      v |-> <<df[i].date, df[i].slot>>] : i \in DOMAIN df}))

GroupOf(df, key) ==
    SelectSeq(df, LAMBDA r : r.date = key[1] /\ r.slot = key[2])

(***************************************************************************)
(* Clash detector: check_clashes_for_slot.  The result is the list of the  *)
(* "CLASH" messages in the order the nested loops log them.                *)
(***************************************************************************)
SortedCourses(sdf) ==
    Values(SeqOfSet({[k |-> Ord(sdf[i].coursecode), v |-> sdf[i].coursecode]
                        : i \in DOMAIN sdf}))

RollSetOf(sdf, c) ==
    {sdf[i].rollno : i \in {j \in DOMAIN sdf : sdf[j].coursecode = c}}

ClashesOfPair(sdf, c_i, c_j) ==
    LET inter == RollSetOf(sdf, c_i) \cap RollSetOf(sdf, c_j)
        sorted == Values(SeqOfSet({[k |-> Ord(r), v |-> r] : r \in inter}))
    IN  [n \in DOMAIN sorted |->
            [kind |-> "CLASH", roll |-> sorted[n], ci |-> c_i, cj |-> c_j]]

\* only the courses next to each other in the sorted list are compared
check_adjacent_courses(sdf) ==
    LET courses == SortedCourses(sdf)
        n == Len(courses)
    IN  Flatten([i \in 1..(n - 1) |->
            ClashesOfPair(sdf, courses[i], courses[i + 1])])

check_clashes_for_slot(sdf) ==
    LET courses == SortedCourses(sdf)
        n == Len(courses)
    IN  Flatten([i \in 1..n |->
            Flatten([d \in 1..(n - i) |->
                ClashesOfPair(sdf, courses[i], courses[i + d])])])


(***************************************************************************)
(* Allocation engine, setup of allocate_for_slot.  A Python dict is a      *)
(* sequence of entries in insertion order; assigning to a key that is      *)
(* already there keeps its place.                                          *)
(***************************************************************************)
HasKey(d, key) == \E i \in DOMAIN d : d[i].key = key

Lookup(d, key) == d[CHOOSE i \in DOMAIN d : d[i].key = key].val

Assign(d, key, val) ==
    IF HasKey(d, key)
    THEN [i \in DOMAIN d |-> IF d[i].key = key THEN [key |-> key, val |-> val]
                             ELSE d[i]]
    ELSE Append(d, [key |-> key, val |-> val])

Keys(d) == [i \in DOMAIN d |-> d[i].key]

InSeq(x, s) == \E i \in DOMAIN s : s[i] = x

\* course -> list(rolls) without the membership test of line 455
RECURSIVE CourseToRollsNoDedup(_)
CourseToRollsNoDedup(sdf) ==
    IF sdf = <<>> THEN <<>>
    ELSE LET d == CourseToRollsNoDedup(Front(sdf))
             row == sdf[Len(sdf)]
             c == row.coursecode
             old == IF HasKey(d, c) THEN Lookup(d, c) ELSE <<>>
         IN  Assign(d, c, Append(old, row.rollno))

\* course -> list(rolls), deduplicated, order preserved
RECURSIVE CourseToRolls(_)
CourseToRolls(sdf) ==
    IF sdf = <<>> THEN <<>>
    ELSE LET d == CourseToRolls(Front(sdf))
             row == sdf[Len(sdf)]
             c == row.coursecode
             old == IF HasKey(d, c) THEN Lookup(d, c) ELSE <<>>
         IN  IF InSeq(row.rollno, old) THEN Assign(d, c, old)
             ELSE Assign(d, c, Append(old, row.rollno))

\* room_caps[key] = cap for every row of rooms_info, in order
RECURSIVE InitialRoomCaps(_)
InitialRoomCaps(rinfo) ==
    IF rinfo = <<>> THEN <<>>
    ELSE LET r == rinfo[Len(rinfo)]
         IN  Assign(InitialRoomCaps(Front(rinfo)),
                    <<r.building, r.room>>, r.per_subject_capacity)

\* building_rooms[b].append(key) for every row of rooms_info, in order
RECURSIVE GroupRooms(_)
GroupRooms(rinfo) ==
    IF rinfo = <<>> THEN <<>>
    ELSE LET d == GroupRooms(Front(rinfo))
             r == rinfo[Len(rinfo)]
             old == IF HasKey(d, r.building) THEN Lookup(d, r.building) ELSE <<>>
         IN  Assign(d, r.building, Append(old, <<r.building, r.room>>))

\* the rooms of a building left in the order of the room sheet
KeepSheetOrder(rkeys) == rkeys

\* sorted(building_rooms[b], key=lambda x: x[1])
SortRooms(rkeys) ==
    Values(SortByKey([i \in DOMAIN rkeys |->
                         [k |-> Ord(rkeys[i][2]), v |-> rkeys[i]]]))

BuildingRooms(rinfo) ==
    LET d == GroupRooms(rinfo)
    IN  [i \in DOMAIN d |-> [key |-> d[i].key, val |-> SortRooms(d[i].val)]]

\* total_capacity += cap for every row of rooms_info
TotalCapacity(rinfo) ==
    SumSeq([i \in DOMAIN rinfo |-> rinfo[i].per_subject_capacity])

\* sum(len(v) for v in course_to_rolls.values())
TotalStudents(ctr) == SumSeq([i \in DOMAIN ctr |-> Len(ctr[i].val)])

\* the courses left in the order of their discovery
KeepCourseOrder(ctr) == ctr

\* sorted(course_to_rolls.items(), key=lambda kv: len(kv[1]), reverse=True)
SortCourses(ctr) ==
    Values(SortByKey([i \in DOMAIN ctr |-> [k |-> 0 - Len(ctr[i].val), v |-> ctr[i]]]))

(***************************************************************************)
(* Allocation engine, placement of one course.                             *)
(***************************************************************************)
\* cap_b = sum(room_caps[k] for k in rkeys), for every building
BuildingCap(brooms, rcaps) ==
    [i \in DOMAIN brooms |->
        [key |-> brooms[i].key,
         val |-> SumSeq([j \in DOMAIN brooms[i].val |->
                            Lookup(rcaps, brooms[i].val[j])])]]

\* every building with a seat left counts as able to hold the course
CanHoldSomebody(bcap, n) ==
    Keys(SelectSeq(bcap, LAMBDA e : e.val >= 1))

\* [b for b, cap_b in building_cap.items() if cap_b >= len(remaining)]
CanHold(bcap, n) ==
    Keys(SelectSeq(bcap, LAMBDA e : e.val >= n))

\* the first building that can hold the course, whatever it has left
ChosenBuildingFirst(bcap, n) == CanHold(bcap, n)[1]

\* among the tightest buildings the first one, or the last one once the run
\* has allocated somebody
ChosenBuildingByHistory(bcap, n) ==
    LET can_hold == CanHold(bcap, n)
        sorted == SortByKey([i \in DOMAIN can_hold |->
                      [k |-> Lookup(bcap, can_hold[i]), v |-> can_hold[i]]])
        tied == SelectSeq(sorted, LAMBDA e : e.k = sorted[1].k)
    IN  IF all_allocations = <<>> THEN tied[1].v ELSE tied[Len(tied)].v

\* sorted(can_hold, key=lambda b: building_cap[b])[0]
ChosenBuilding(bcap, n) ==
    LET can_hold == CanHold(bcap, n)
    IN  SortByKey([i \in DOMAIN can_hold |->
                      [k |-> Lookup(bcap, can_hold[i]), v |-> can_hold[i]]])[1].v

\* sorted(room_caps.keys(), key=lambda x: (x[0], x[1]))
RoomKeyOrd(key) == Ord(key[1]) * 10 + Ord(key[2])

\* the keys of the capacity map in insertion order
AllRoomsUnsorted(rcaps) == Keys(rcaps)

AllRoomsSorted(rcaps) ==
    LET ks == Keys(rcaps)
    IN  Values(SortByKey([i \in DOMAIN ks |-> [k |-> RoomKeyOrd(ks[i]), v |-> ks[i]]]))

\* every student still unseated is taken, whatever the room holds
TakeAll(cap, n) == n

\* take = min(cap, len(remaining))
TakeCount(cap, n) == Min(cap, n)

UnknownName == "Unknown Name"

\* roll_to_name.get(roll, "Unknown Name")
NameOf(names, roll) ==
    IF roll \in DOMAIN names THEN names[roll] ELSE UnknownName

AllocationRecord(d, sl, key, course, roll, names) ==
    [date |-> d, slot |-> sl, building |-> key[1], room |-> key[2],
     coursecode |-> course, rollno |-> roll, name |-> NameOf(names, roll)]


(***************************************************************************)
(* allocate_for_slot, lines 450-482: the course lists, the capacity map,   *)
(* the rooms of each building and the totals.                              *)
(***************************************************************************)
\* the capacity map of the previous call is kept when there is one
AllocSetupCarryOver ==
    /\ pc = "alloc_setup"
    /\ course_to_rolls' = CourseToRolls(slot_df)
    /\ room_caps' = IF room_caps = <<>> THEN InitialRoomCaps(rooms_info)
                    ELSE room_caps
    /\ building_rooms' = BuildingRooms(rooms_info)
    /\ total_capacity' = TotalCapacity(rooms_info)
    /\ allocations' = <<>>
    /\ sorted_courses' = <<>> /\ ci' = 0 /\ remaining' = <<>>
    /\ single_building_found' = FALSE /\ chosen_building' = ""
    /\ loop_keys' = <<>> /\ ki' = 0
    /\ pc' = "precheck"
    /\ UNCHANGED <<inputs, mainv, signals, outv>>

AllocSetup ==
    /\ pc = "alloc_setup"
    /\ course_to_rolls' = CourseToRolls(slot_df)
    /\ room_caps' = InitialRoomCaps(rooms_info)
    /\ building_rooms' = BuildingRooms(rooms_info)
    /\ total_capacity' = TotalCapacity(rooms_info)
    /\ allocations' = <<>>
    /\ sorted_courses' = <<>> /\ ci' = 0 /\ remaining' = <<>>
    /\ single_building_found' = FALSE /\ chosen_building' = ""
    /\ loop_keys' = <<>> /\ ki' = 0
    /\ pc' = "precheck"
    /\ UNCHANGED <<inputs, mainv, signals, outv>>

\* the error is logged but the function goes on to allocate
PreCheckAbortFallsThrough ==
    /\ pc = "precheck"
    /\ TotalStudents(course_to_rolls) > total_capacity
    /\ signals' = Append(signals,
           [kind |-> "CAPACITY", date |-> date, slot |-> slot,
            students |-> TotalStudents(course_to_rolls),
            seats |-> total_capacity])
    /\ sorted_courses' = SortCourses(course_to_rolls)
    /\ ci' = 1
    /\ pc' = "course"
    /\ UNCHANGED <<inputs, mainv, outv, course_to_rolls, room_caps,
                   building_rooms, total_capacity, remaining,
                   single_building_found, chosen_building, loop_keys, ki,
                   allocations>>

\* lines 484-489: the slot's demand exceeds its capacity
PreCheckAbort ==
    /\ pc = "precheck"
    /\ TotalStudents(course_to_rolls) > total_capacity
    /\ signals' = Append(signals,
           [kind |-> "CAPACITY", date |-> date, slot |-> slot,
            students |-> TotalStudents(course_to_rolls),
            seats |-> total_capacity])
    /\ pc' = "returned"
    /\ UNCHANGED <<inputs, mainv, allocv, outv>>

\* lines 491-496: largest course first
PreCheckPass ==
    /\ pc = "precheck"
    /\ ~(TotalStudents(course_to_rolls) > total_capacity)
    /\ sorted_courses' = SortCourses(course_to_rolls)
    /\ ci' = 1
    /\ pc' = "course"
    /\ UNCHANGED <<inputs, mainv, signals, outv, course_to_rolls, room_caps,
                   building_rooms, total_capacity, remaining,
                   single_building_found, chosen_building, loop_keys, ki,
                   allocations>>

\* lines 498-518 and 543-549: the course's rolls, and the rooms it will try
CourseBegin ==
    /\ pc = "course"
    /\ LET rolls == sorted_courses[ci].val
           building_cap == BuildingCap(building_rooms, room_caps)
           can_hold == CanHold(building_cap, Len(rolls))
       IN  /\ remaining' = rolls
           /\ IF can_hold # <<>>
              THEN /\ single_building_found' = TRUE
                   /\ chosen_building' = ChosenBuilding(building_cap, Len(rolls))
                   /\ loop_keys' = Lookup(building_rooms,
                                       ChosenBuilding(building_cap, Len(rolls)))
              ELSE /\ single_building_found' = FALSE
                   /\ chosen_building' = ""
                   /\ loop_keys' = AllRoomsSorted(room_caps)
    /\ ki' = 1
    /\ pc' = "fill"
    /\ UNCHANGED <<inputs, mainv, signals, outv, course_to_rolls, room_caps,
                   building_rooms, total_capacity, sorted_courses, ci,
                   allocations>>

\* the students are seated but the room's counter is left as it was
FillRoomNoDecrement(key) ==
    LET cap == Lookup(room_caps, key)
        take == TakeCount(cap, Len(remaining))
        assigned == Take(remaining, take)
    IN  IF cap <= 0
        THEN UNCHANGED <<remaining, room_caps, allocations>>
        ELSE /\ remaining' = Drop(remaining, take)
             /\ room_caps' = room_caps
             /\ allocations' = allocations \o
                    [i \in DOMAIN assigned |->
                        AllocationRecord(date, slot, key, sorted_courses[ci].key,
                                         assigned[i], roll_to_name)]

\* one room of either loop: lines 523-541 and 553-571
FillRoom(key) ==
    LET cap == Lookup(room_caps, key)
        take == TakeCount(cap, Len(remaining))
        assigned == Take(remaining, take)
    IN  IF cap <= 0
        THEN UNCHANGED <<remaining, room_caps, allocations>>
        ELSE /\ remaining' = Drop(remaining, take)
             /\ room_caps' = Assign(room_caps, key, cap - take)
             /\ allocations' = allocations \o
                    [i \in DOMAIN assigned |->
                        AllocationRecord(date, slot, key, sorted_courses[ci].key,
                                         assigned[i], roll_to_name)]

\* lines 520-541: the next room of the chosen building
FillSingle ==
    /\ pc = "fill" /\ single_building_found
    /\ ki <= Len(loop_keys) /\ remaining # <<>>
    /\ FillRoom(loop_keys[ki])
    /\ ki' = ki + 1
    /\ UNCHANGED <<pc, inputs, mainv, signals, outv, course_to_rolls,
                   building_rooms, total_capacity, sorted_courses, ci,
                   single_building_found, chosen_building, loop_keys>>

\* lines 550-571: the next room of the whole slot
FillSpread ==
    /\ pc = "fill" /\ ~single_building_found
    /\ ki <= Len(loop_keys) /\ remaining # <<>>
    /\ FillRoom(loop_keys[ki])
    /\ ki' = ki + 1
    /\ UNCHANGED <<pc, inputs, mainv, signals, outv, course_to_rolls,
                   building_rooms, total_capacity, sorted_courses, ci,
                   single_building_found, chosen_building, loop_keys>>

\* lines 573-580: the loop over the rooms has ended (exhausted, or break)
CourseEnd ==
    /\ pc = "fill"
    /\ ki > Len(loop_keys) \/ remaining = <<>>
    /\ signals' = IF remaining # <<>>
                  THEN Append(signals,
                           [kind |-> "UNSEATED", date |-> date, slot |-> slot,
                            course |-> sorted_courses[ci].key,
                            count |-> Len(remaining)])
                  ELSE signals
    /\ IF ci < Len(sorted_courses)
       THEN ci' = ci + 1 /\ pc' = "course"
       ELSE ci' = ci /\ pc' = "returned"
    /\ UNCHANGED <<inputs, mainv, outv, course_to_rolls, room_caps,
                   building_rooms, total_capacity, sorted_courses, remaining,
                   single_building_found, chosen_building, loop_keys, ki,
                   allocations>>

NextSlotAlloc ==
    \/ AllocSetup \/ PreCheckAbort \/ PreCheckPass
    \/ CourseBegin \/ FillSingle \/ FillSpread \/ CourseEnd

(***************************************************************************)
(* allocate_for_slot as a function of its arguments: the pair it returns.  *)
(***************************************************************************)
\* lines 520-541 and 550-571: the loop over the rooms
RECURSIVE FillRooms(_, _, _)
FillRooms(keys, rem, caps) ==
    IF keys = <<>> \/ rem = <<>>
    THEN [remaining |-> rem, room_caps |-> caps, seated |-> <<>>]
    ELSE LET key == Head(keys)
             cap == Lookup(caps, key)
             take == Min(cap, Len(rem))
         IN  IF cap <= 0 THEN FillRooms(Tail(keys), rem, caps)
             ELSE LET rest == FillRooms(Tail(keys), Drop(rem, take),
                                        Assign(caps, key, cap - take))
                  IN  [rest EXCEPT !.seated =
                          [i \in 1..take |-> <<key, rem[i]>>] \o @]

\* lines 498-571: one course
PlaceCourse(entry, caps, brooms) ==
    LET building_cap == BuildingCap(brooms, caps)
        n == Len(entry.val)
    IN  FillRooms(IF CanHold(building_cap, n) # <<>>
                  THEN Lookup(brooms, ChosenBuilding(building_cap, n))
                  ELSE AllRoomsSorted(caps),
                  entry.val, caps)

\* lines 498-580: the loop over the courses
RECURSIVE PlaceCourses(_, _, _, _, _, _)
PlaceCourses(courses, caps, brooms, d, sl, names) ==
    IF courses = <<>> THEN [allocations |-> <<>>, room_caps |-> caps]
    ELSE LET first == PlaceCourse(Head(courses), caps, brooms)
             rest == PlaceCourses(Tail(courses), first.room_caps, brooms,
                                  d, sl, names)
         IN  [allocations |->
                  [i \in DOMAIN first.seated |->
                      AllocationRecord(d, sl, first.seated[i][1],
                                       Head(courses).key, first.seated[i][2],
                                       names)] \o rest.allocations,
              room_caps |-> rest.room_caps]

allocate_for_slot(d, sl, sdf, rinfo, names) ==
    LET ctr == CourseToRolls(sdf)
    IN  IF TotalStudents(ctr) > TotalCapacity(rinfo)
        THEN [allocations |-> <<>>, room_caps |-> InitialRoomCaps(rinfo)]
        ELSE PlaceCourses(SortCourses(ctr), InitialRoomCaps(rinfo),
                          BuildingRooms(rinfo), d, sl, names)


\* lines 573-578: the students that the courses end with unseated
RECURSIVE UnseatedAfter(_, _, _)
UnseatedAfter(courses, caps, brooms) ==
    IF courses = <<>> THEN 0
    ELSE LET first == PlaceCourse(Head(courses), caps, brooms)
         IN  Len(first.remaining)
                 + UnseatedAfter(Tail(courses), first.room_caps, brooms)

(***************************************************************************)
(* Report aggregator and attendance documents.                             *)
(***************************************************************************)
\* the key of a roster row without the building
RosterKeyNoBuilding(r) ==
    ((Ord(r.date) * 10 + Ord(r.slot)) * 10 + Ord(r.room)) * 10
        + Ord(r.coursecode)

RosterKeyOrd(r) ==
    (((Ord(r.date) * 10 + Ord(r.slot)) * 10 + Ord(r.building)) * 10
        + Ord(r.room)) * 10 + Ord(r.coursecode)

PdfKeyOrd(r) ==
    ((Ord(r.date) * 10 + Ord(r.slot)) * 10 + Ord(r.room)) * 10
        + Ord(r.coursecode)

\* df.groupby(columns, sort=True): the groups in key order, rows in df order
\* (keys is the list of the rows' keys)
RECURSIVE RowsOfKey(_, _, _)
RowsOfKey(df, keys, k) ==
    IF df = <<>> THEN <<>>
    ELSE LET rest == RowsOfKey(Front(df), Front(keys), k)
         IN  IF keys[Len(keys)] = k THEN Append(rest, df[Len(df)]) ELSE rest

GroupBy(df, keys) ==
    LET ks == SeqOfSet({[k |-> keys[i], v |-> keys[i]] : i \in DOMAIN df})
    IN  [n \in DOMAIN ks |-> RowsOfKey(df, keys, ks[n].k)]

\* lines 603-620: one roster row per (date, slot, building, room, course)
RosterRows(all) ==
    LET grouped == GroupBy(all, [i \in DOMAIN all |-> RosterKeyOrd(all[i])])
    IN  [n \in DOMAIN grouped |->
            LET g == grouped[n]
            IN  [Date |-> g[1].date, Slot |-> g[1].slot,
                 Building |-> g[1].building, Room |-> g[1].room,
                 CourseCode |-> g[1].coursecode,
                 RollNumbers |-> [i \in DOMAIN g |-> g[i].rollno],
                 Names |-> [i \in DOMAIN g |-> g[i].name]]]

\* lines 627-631: room_base_cap, the last row of a key winning
\* the base of a usage row taken from effective_capacity
RECURSIVE RoomBaseCapEffective(_)
RoomBaseCapEffective(rinfo) ==
    IF rinfo = <<>> THEN <<>>
    ELSE LET r == rinfo[Len(rinfo)]
         IN  Assign(RoomBaseCapEffective(Front(rinfo)),
                    <<r.building, r.room>>, r.effective_capacity)

RoomBaseCap(rinfo) == InitialRoomCaps(rinfo)

\* lines 633-647: one usage row per slot and key of its capacity map
SeatsRows(caps_by_slot, rinfo) ==
    LET base == RoomBaseCap(rinfo)
    IN  Flatten([s \in DOMAIN caps_by_slot |->
            LET rc == caps_by_slot[s].val
            IN  [i \in DOMAIN rc |->
                    LET b == IF HasKey(base, rc[i].key)
                             THEN Lookup(base, rc[i].key) ELSE 0
                    IN  [Date |-> caps_by_slot[s].key[1],
                         Slot |-> caps_by_slot[s].key[2],
                         Building |-> rc[i].key[1], Room |-> rc[i].key[2],
                         EffectiveCapacityPerSubject |-> b,
                         UsedSeats |-> b - rc[i].val,
                         SeatsLeft |-> rc[i].val]]])

\* lines 926-950: one document per (date, slot, room, course)
PdfUnits(all) ==
    LET grouped == GroupBy(all, [i \in DOMAIN all |-> PdfKeyOrd(all[i])])
    IN  [n \in DOMAIN grouped |->
            LET g == grouped[n]
            IN  [date |-> g[1].date, slot |-> g[1].slot, room |-> g[1].room,
                 course |-> g[1].coursecode,
                 students |-> [i \in DOMAIN g |-> <<g[i].rollno, g[i].name>>]]]

(***************************************************************************)
(* main().                                                                 *)
(***************************************************************************)
\* lines 1005-1007 with 319-320: no registration is a ValueError, which
\* main() catches and logs (lines 1063-1067)
\* the registrations are taken as they are, none included
LoadInputsUnchecked ==
    /\ pc = "start"
    /\ reg_df' = BuildRegistrations(tt_df, cr_df)
    /\ pc' = "caps"
    /\ UNCHANGED <<inputs, rooms_info, groups, date, slot, slot_df,
                   all_allocations, per_slot_room_caps, signals, allocv, outv>>

LoadInputs ==
    /\ pc = "start"
    /\ LET rows == BuildRegistrations(tt_df, cr_df)
       IN  IF rows = <<>>
           THEN /\ pc' = "failed"
                /\ signals' = Append(signals, [kind |-> "UNEXPECTED"])
                /\ UNCHANGED reg_df
           ELSE /\ pc' = "caps"
                /\ reg_df' = rows
                /\ UNCHANGED signals
    /\ UNCHANGED <<inputs, rooms_info, groups, date, slot, slot_df,
                   all_allocations, per_slot_room_caps, allocv, outv>>

\* lines 1009-1017: the capacities, and the groups of the loop over the slots
ComputeCaps ==
    /\ pc = "caps"
    /\ rooms_info' = compute_effective_capacities(class_df, buffer, mode)
    /\ groups' = GroupKeys(reg_df)
    /\ pc' = "loop"
    /\ UNCHANGED <<inputs, reg_df, date, slot, slot_df, all_allocations,
                   per_slot_room_caps, signals, allocv, outv>>

\* line 1017: the next (date, slot) group
SlotBegin ==
    /\ pc = "loop" /\ groups # <<>>
    /\ date' = Head(groups)[1]
    /\ slot' = Head(groups)[2]
    /\ slot_df' = GroupOf(reg_df, Head(groups))
    /\ groups' = Tail(groups)
    /\ pc' = "clash"
    /\ UNCHANGED <<inputs, reg_df, rooms_info, all_allocations,
                   per_slot_room_caps, signals, allocv, outv>>

\* line 1021
CheckClashes ==
    /\ pc = "clash"
    /\ signals' = signals \o check_clashes_for_slot(slot_df)
    /\ pc' = "alloc_setup"
    /\ UNCHANGED <<inputs, mainv, allocv, outv>>

\* lines 1023-1027: the slot's result joins the run's
Collect ==
    /\ pc = "returned"
    /\ all_allocations' = all_allocations \o allocations
    /\ per_slot_room_caps' = Assign(per_slot_room_caps, <<date, slot>>, room_caps)
    /\ pc' = "loop"
    /\ UNCHANGED <<inputs, reg_df, rooms_info, groups, date, slot, slot_df,
                   signals, allocv, outv>>

\* lines 1030-1036 with 590-592: nothing is written without an allocation
BuildOutputs ==
    /\ pc = "loop" /\ groups = <<>>
    /\ IF all_allocations = <<>>
       THEN overall_agg_df' = <<>> /\ seats_rows' = <<>>
       ELSE /\ overall_agg_df' = RosterRows(all_allocations)
            /\ seats_rows' = SeatsRows(per_slot_room_caps, rooms_info)
    /\ pc' = "pdf"
    /\ UNCHANGED <<inputs, mainv, signals, allocv, pdf_units>>

\* lines 1054-1059 with 922-950
GeneratePdfs ==
    /\ pc = "pdf"
    /\ pdf_units' = IF all_allocations = <<>> THEN <<>>
                    ELSE PdfUnits(all_allocations)
    /\ pc' = "done"
    /\ UNCHANGED <<inputs, mainv, signals, allocv, overall_agg_df, seats_rows>>

Next ==
    \/ LoadInputs \/ ComputeCaps \/ SlotBegin \/ CheckClashes
    \/ NextSlotAlloc
    \/ Collect \/ BuildOutputs \/ GeneratePdfs


(***************************************************************************)
(* Input families.                                                         *)
(***************************************************************************)
RoomRowsOf(caps) ==
    {[building |-> key[1], room |-> key[2], capacity |-> c] :
        key \in RoomKeys, c \in caps}

RoomTables == SeqsOf(RoomRowsOf(0..MaxCapacity), 0, MaxRoomRows)

EnrollmentRows == [rollno : Rolls, course_code : Courses]

\* a session cell: blank, "NO EXAM", or one or two distinct course codes
Cells ==
    {<<>>, <<"NO EXAM">>}
        \cup {<<c>> : c \in Courses}
        \cup {p \in Courses \X Courses : p[1] # p[2]}

NameTables == {[r \in {"R1"} |-> "N1"]}

\* the rolls of a table in the order of their first row
RECURSIVE FirstSeen(_)
FirstSeen(t) ==
    IF t = <<>> THEN <<>>
    ELSE LET f == FirstSeen(Front(t))
         IN  IF InSeq(t[Len(t)].rollno, f) THEN f ELSE Append(f, t[Len(t)].rollno)

\* rolls are interchangeable: a table is taken with its rolls named in the
\* order of their first row
RollsInOrder(t) ==
    \A i \in DOMAIN FirstSeen(t) : Ord(FirstSeen(t)[i]) = i

\* the registrations of one slot that the registration builder can produce
SlotTables ==
    {t \in {CellRegistrations(cr, "D1", "morning", cell) :
                cr \in SeqsOf(EnrollmentRows, 1, MaxRegs), cell \in Cells} :
        Len(t) >= 1 /\ RollsInOrder(t)}

(***************************************************************************)
(* SpecSlot: one call of allocate_for_slot, on any slot of SlotTables and  *)
(* any room table of RoomTables (dense, no buffer).                        *)
(***************************************************************************)
InitSlot ==
    /\ pc = "alloc_setup"
    /\ tt_df = <<>> /\ cr_df = <<>>
    /\ class_df \in RoomTables
    /\ buffer = 0 /\ mode = "dense"
    /\ roll_to_name \in NameTables
    /\ rooms_info = compute_effective_capacities(class_df, buffer, mode)
    /\ slot_df \in SlotTables
    /\ reg_df = slot_df
    /\ groups = <<>> /\ date = "D1" /\ slot = "morning"
    /\ all_allocations = <<>> /\ per_slot_room_caps = <<>>
    /\ signals = <<>>
    /\ AllocIdle /\ OutIdle

SpecSlot == InitSlot /\ [][NextSlotAlloc]_vars

(***************************************************************************)
(* Spec: a run of main() on a one-day timetable (a morning and an evening  *)
(* session), a course-roll mapping and a room sheet.                       *)
(***************************************************************************)
\* the cells of a run: blank, "NO EXAM", one course, two courses
RunCells == {<<>>, <<"NO EXAM">>, <<"A">>, <<"A", "B">>}

RunTimetables ==
    {<<[date |-> "D1", morning |-> m, evening |-> e]>> :
        m \in RunCells, e \in RunCells}

RunEnrollments ==
    {t \in SeqsOf(EnrollmentRows, 0, MaxRunRows) : RollsInOrder(t)}

RunRoomTables == SeqsOf(RoomRowsOf(1..MaxCapacity), 0, MaxRunRows)

Init ==
    /\ pc = "start"
    /\ tt_df \in RunTimetables
    /\ cr_df \in RunEnrollments
    /\ class_df \in RunRoomTables
    /\ buffer \in 0..1 /\ mode \in Modes
    /\ roll_to_name \in NameTables
    /\ reg_df = <<>> /\ rooms_info = <<>> /\ groups = <<>>
    /\ date = "" /\ slot = "" /\ slot_df = <<>>
    /\ all_allocations = <<>> /\ per_slot_room_caps = <<>>
    /\ signals = <<>>
    /\ AllocIdle /\ OutIdle

Spec == Init /\ [][Next]_vars


(***************************************************************************)
(* SpecCap: compute_effective_capacities on room sheets of one or two      *)
(* rows, with raw capacities below, at and above the buffer.               *)
(***************************************************************************)
CapRoomTables ==
    SeqsOf({[building |-> "B1", room |-> "1", capacity |-> c] :
               c \in 0..(MaxBuffer + MaxCapacity + 1)}, 1, 2)

InitCap ==
    /\ pc = "caps"
    /\ tt_df = <<>> /\ cr_df = <<>>
    /\ class_df \in CapRoomTables
    /\ buffer \in 0..MaxBuffer /\ mode \in Modes
    /\ roll_to_name \in NameTables
    /\ reg_df = <<>> /\ rooms_info = <<>> /\ groups = <<>>
    /\ date = "" /\ slot = "" /\ slot_df = <<>>
    /\ all_allocations = <<>> /\ per_slot_room_caps = <<>>
    /\ signals = <<>>
    /\ AllocIdle /\ OutIdle

SpecCap == InitCap /\ [][ComputeCaps]_vars

(***************************************************************************)
(* SpecClash: check_clashes_for_slot on the slots that the registration    *)
(* builder produces from three courses.                                    *)
(***************************************************************************)
ClashCourses == {"A", "B", "C"}

ClashCells ==
    {<<c>> : c \in ClashCourses}
        \cup {p \in ClashCourses \X ClashCourses : p[1] # p[2]}
        \cup {p \in ClashCourses \X ClashCourses \X ClashCourses :
                 p[1] # p[2] /\ p[1] # p[3] /\ p[2] # p[3]}

ClashTables ==
    {t \in {CellRegistrations(cr, "D1", "morning", cell) :
                cr \in SeqsOf([rollno : Rolls, course_code : ClashCourses],
                              1, MaxRegs + 1),
                cell \in ClashCells} :
        Len(t) >= 1}

InitClash ==
    /\ pc = "clash"
    /\ tt_df = <<>> /\ cr_df = <<>> /\ class_df = <<>>
    /\ buffer = 0 /\ mode = "dense"
    /\ roll_to_name \in NameTables
    /\ slot_df \in ClashTables
    /\ reg_df = slot_df
    /\ rooms_info = <<>> /\ groups = <<>>
    /\ date = "D1" /\ slot = "morning"
    /\ all_allocations = <<>> /\ per_slot_room_caps = <<>>
    /\ signals = <<>>
    /\ AllocIdle /\ OutIdle

SpecClash == InitClash /\ [][CheckClashes]_vars


(***************************************************************************)
(* What the claims speak of, taken from the inputs and the results.        *)
(***************************************************************************)
\* the per-course capacity of a room: that of the last row of its key
BaseCapacity(key) ==
    LET rows == {i \in DOMAIN rooms_info :
                    <<rooms_info[i].building, rooms_info[i].room>> = key}
    IN  rooms_info[CHOOSE i \in rows : \A j \in rows : j <= i].per_subject_capacity

SheetKeys == {<<rooms_info[i].building, rooms_info[i].room>> : i \in DOMAIN rooms_info}

\* the allocation records of the slot that sit in a room
SeatedIn(key) ==
    Cardinality({i \in DOMAIN allocations :
                    allocations[i].building = key[1] /\ allocations[i].room = key[2]})

SlotCourses == {slot_df[i].coursecode : i \in DOMAIN slot_df}

\* the registered rolls of a course, each once, in the order of their first row
RegisteredRolls(c) == FirstSeen(SelectSeq(slot_df, LAMBDA r : r.coursecode = c))

\* the slot's demand: every course counts each of its rolls once
Demand == Cardinality({<<slot_df[i].coursecode, slot_df[i].rollno>> : i \in DOMAIN slot_df})

\* the slot's supply: the per-course capacities of the rows of the room sheet
SheetCapacity == SumSeq([i \in DOMAIN rooms_info |-> rooms_info[i].per_subject_capacity])

CourseRecords(c) == SelectSeq(allocations, LAMBDA a : a.coursecode = c)

UnseatedWarnings(c) ==
    {i \in DOMAIN signals : signals[i].kind = "UNSEATED" /\ signals[i].course = c}

UnseatedCount(c) ==
    IF UnseatedWarnings(c) = {} THEN 0
    ELSE signals[CHOOSE i \in UnseatedWarnings(c) : TRUE].count

(***************************************************************************)
(* C1.  At every step of allocate_for_slot every room's remaining counter  *)
(* is between 0 and the room's per-course capacity, and the students       *)
(* seated in the room, over all courses of the slot, do not exceed it.     *)
(***************************************************************************)
C1_RoomWithinCapacity ==
    \A i \in DOMAIN room_caps :
        /\ 0 <= room_caps[i].val
        /\ room_caps[i].val <= BaseCapacity(room_caps[i].key)
        /\ SeatedIn(room_caps[i].key) <= BaseCapacity(room_caps[i].key)

\* a room of two seats or more, drained by two courses
C1_Witness ==
    /\ pc = "returned"
    /\ \E i \in DOMAIN room_caps :
          /\ room_caps[i].val = 0
          /\ BaseCapacity(room_caps[i].key) >= 2
          /\ \E a, b \in DOMAIN allocations :
                /\ allocations[a].coursecode # allocations[b].coursecode
                /\ <<allocations[a].building, allocations[a].room>> = room_caps[i].key
                /\ <<allocations[b].building, allocations[b].room>> = room_caps[i].key

(***************************************************************************)
(* C2.  When allocate_for_slot returns, the rolls with an allocation       *)
(* record for a course are its registered rolls, each once, less the last  *)
(* ones counted in the course's warning, and no (course, roll) pair has    *)
(* two records.  C2_Original states it of every slot; C2_SeatedOrWarned    *)
(* of the slots that pass the capacity pre-check.                          *)
(***************************************************************************)
SeatedAsClaimed(c) ==
    LET regs == RegisteredRolls(c)
        recs == CourseRecords(c)
    IN  /\ Cardinality(UnseatedWarnings(c)) <= 1
        /\ UnseatedCount(c) <= Len(regs)
        /\ {recs[i].rollno : i \in DOMAIN recs}
               = Range(Take(regs, Len(regs) - UnseatedCount(c)))
        /\ \A i, j \in DOMAIN recs : recs[i].rollno = recs[j].rollno => i = j

C2_Original ==
    pc = "returned" => \A c \in SlotCourses : SeatedAsClaimed(c)

C2_SeatedOrWarned ==
    (pc = "returned" /\ Demand <= SheetCapacity)
        => \A c \in SlotCourses : SeatedAsClaimed(c)

\* a slot with a repeated registration, a seated student and a warning
C2_Witness ==
    /\ pc = "returned" /\ Demand <= SheetCapacity
    /\ Len(slot_df) > Demand
    /\ allocations # <<>>
    /\ \E c \in SlotCourses : UnseatedCount(c) > 0

(***************************************************************************)
(* C3.  When the slot's demand exceeds the capacity of the room sheet,     *)
(* allocate_for_slot returns no allocation record, has logged exactly one  *)
(* error, which names the slot and the two totals, and returns every       *)
(* room's counter at its per-course capacity.                              *)
(***************************************************************************)
C3_AbortConsumesNothing ==
    (pc = "returned" /\ Demand > SheetCapacity)
        => /\ allocations = <<>>
           /\ signals = <<[kind |-> "CAPACITY", date |-> date, slot |-> slot,
                           students |-> Demand, seats |-> SheetCapacity]>>
           /\ {room_caps[i].key : i \in DOMAIN room_caps} = SheetKeys
           /\ \A i \in DOMAIN room_caps :
                  room_caps[i].val = BaseCapacity(room_caps[i].key)

\* an aborted slot whose rooms had seats
C3_Witness ==
    /\ pc = "returned" /\ Demand > SheetCapacity
    /\ SheetCapacity > 0
    /\ Len(signals) = 1

(***************************************************************************)
(* C4.  compute_effective_capacities: for every row, effective is the raw  *)
(* capacity less the buffer, or 0 when that is negative; the per-course    *)
(* capacity is effective (dense) or its half rounded down (sparse); it is  *)
(* never negative.                                                         *)
(***************************************************************************)
C4_CapacityFormula ==
    pc = "loop" =>
        /\ Len(rooms_info) = Len(class_df)
        /\ \A i \in DOMAIN rooms_info :
              LET c == class_df[i].capacity
                  e == rooms_info[i].effective_capacity
                  p == rooms_info[i].per_subject_capacity
              IN  /\ rooms_info[i].building = class_df[i].building
                  /\ rooms_info[i].room = class_df[i].room
                  /\ e = IF c - buffer > 0 THEN c - buffer ELSE 0
                  /\ mode = "dense" => p = e
                  /\ mode = "sparse" => 2 * p <= e /\ e <= 2 * p + 1
                  /\ p >= 0

\* sparse, a room smaller than the buffer and a room of odd effective capacity
C4_Witness ==
    /\ pc = "loop" /\ mode = "sparse"
    /\ \E i \in DOMAIN class_df : class_df[i].capacity < buffer
    /\ \E i \in DOMAIN class_df :
          class_df[i].capacity = buffer + 3 /\ rooms_info[i].per_subject_capacity = 1


(***************************************************************************)
(* The course being placed (pc = "fill"): its records so far, the rooms it *)
(* uses, and what every room had left when the course began.               *)
(***************************************************************************)
CurrentCourse == sorted_courses[ci].key

CurrentRolls == sorted_courses[ci].val

CurrentRecords == CourseRecords(CurrentCourse)

SeatedOfCurrentIn(key) ==
    Cardinality({i \in DOMAIN CurrentRecords :
                    <<CurrentRecords[i].building, CurrentRecords[i].room>> = key})

RoomsUsed == {<<CurrentRecords[i].building, CurrentRecords[i].room>> : i \in DOMAIN CurrentRecords}

CapAtBegin(key) == Lookup(room_caps, key) + SeatedOfCurrentIn(key)

\* the loop over the rooms has ended: every room tried, or nobody left
CourseDone == pc = "fill" /\ (ki > Len(loop_keys) \/ remaining = <<>>)

RECURSIVE SumCapAtBegin(_)
SumCapAtBegin(S) ==
    IF S = {} THEN 0
    ELSE LET k == CHOOSE x \in S : TRUE
         IN  CapAtBegin(k) + SumCapAtBegin(S \ {k})

\* the least number of rooms whose capacities at the course's begin hold n
MinRooms(n) ==
    LET holds == {S \in SUBSET SheetKeys : SumCapAtBegin(S) >= n}
    IN  CHOOSE m \in 0..Cardinality(SheetKeys) :
            /\ \E S \in holds : Cardinality(S) = m
            /\ \A S \in holds : Cardinality(S) >= m

\* the records of the course run through the rooms in ascending order and
\* through the rolls in the order of their first registration
InRoomAndRollOrder ==
    /\ [i \in DOMAIN CurrentRecords |-> CurrentRecords[i].rollno]
           = Take(RegisteredRolls(CurrentCourse), Len(CurrentRecords))
    /\ \A i, j \in DOMAIN CurrentRecords :
           i < j => RoomKeyOrd(<<CurrentRecords[i].building, CurrentRecords[i].room>>)
                      <= RoomKeyOrd(<<CurrentRecords[j].building, CurrentRecords[j].room>>)

(***************************************************************************)
(* C5.  A course that is seated in full uses the least number of rooms     *)
(* that could hold it, given what the rooms had left when it began.        *)
(***************************************************************************)
C5_MinimumRooms ==
    (CourseDone /\ remaining = <<>>)
        => Cardinality(RoomsUsed) = MinRooms(Len(CurrentRolls))

(***************************************************************************)
(* C8.  Single-building path: the course's records are all in the chosen   *)
(* building; its rooms are taken in ascending room identifier, each taking *)
(* min(remaining capacity, students still unseated), so that a room gets   *)
(* students only if every room of the building with a smaller identifier   *)
(* is left at 0; the students go in the order of their first registration. *)
(***************************************************************************)
SeatedBelow(key) ==
    Cardinality({i \in DOMAIN CurrentRecords :
                    /\ CurrentRecords[i].building = key[1]
                    /\ Ord(CurrentRecords[i].room) < Ord(key[2])})

C8_SingleBuildingFill ==
    (CourseDone /\ single_building_found) =>
        /\ \A i \in DOMAIN CurrentRecords : CurrentRecords[i].building = chosen_building
        /\ \A key \in SheetKeys :
              key[1] = chosen_building =>
                  SeatedOfCurrentIn(key)
                      = Min(CapAtBegin(key), Len(CurrentRolls) - SeatedBelow(key))
        /\ \A key \in RoomsUsed : \A low \in SheetKeys :
              (low[1] = key[1] /\ Ord(low[2]) < Ord(key[2]))
                  => Lookup(room_caps, low) = 0
        /\ InRoomAndRollOrder

\* the lower room filled, the rest of the course in the next room, which
\* keeps a seat
C8_Witness ==
    /\ CourseDone /\ single_building_found /\ remaining = <<>>
    /\ \E low, high \in RoomsUsed :
          /\ low[1] = high[1] /\ Ord(low[2]) < Ord(high[2])
          /\ Lookup(room_caps, high) > 0

(***************************************************************************)
(* C9.  When no building's capacity, summed over its rows of the room      *)
(* sheet as line 506 sums it, reaches the course's size, the course is     *)
(* spread over the rooms of the slot in ascending (building, room) order:  *)
(* every room before the last one used is left at 0, rooms at 0 get        *)
(* nobody, and students stay unseated only when every room is at 0.        *)
(* (C19 is about the sheets on which the sum over the rows is not the sum  *)
(* over the distinct rooms.)                                               *)
(***************************************************************************)
BuildingsOfSheet == {rooms_info[i].building : i \in DOMAIN rooms_info}

BuildingCapAtBegin(b) ==
    SumSeq([i \in DOMAIN rooms_info |->
               IF rooms_info[i].building = b
               THEN CapAtBegin(<<rooms_info[i].building, rooms_info[i].room>>)
               ELSE 0])

NoBuildingSuffices ==
    \A b \in BuildingsOfSheet : BuildingCapAtBegin(b) < Len(CurrentRolls)

C9_SpreadFill ==
    (CourseDone /\ NoBuildingSuffices) =>
        /\ ~single_building_found
        /\ InRoomAndRollOrder
        /\ \A key \in RoomsUsed : \A low \in SheetKeys :
              RoomKeyOrd(low) < RoomKeyOrd(key) => Lookup(room_caps, low) = 0
        /\ \A key \in SheetKeys :
              SeatedOfCurrentIn(key) = 0 =>
                  (CapAtBegin(key) = 0 \/ remaining = <<>>)
        /\ remaining # <<>> => \A key \in SheetKeys : Lookup(room_caps, key) = 0

\* a course over two buildings, a room at 0 between the two rooms it uses
C9_Witness ==
    /\ CourseDone /\ NoBuildingSuffices /\ remaining = <<>>
    /\ \E low, high \in RoomsUsed :
          /\ low[1] # high[1]
          /\ \E mid \in SheetKeys :
                /\ RoomKeyOrd(low) < RoomKeyOrd(mid)
                /\ RoomKeyOrd(mid) < RoomKeyOrd(high)
                /\ CapAtBegin(mid) = 0

(***************************************************************************)
(* C10.  check_clashes_for_slot logs exactly one clash for every roll and  *)
(* every unordered pair of distinct courses of the slot in both of which   *)
(* the roll is registered, and nothing else: a roll of one course only has *)
(* no clash.                                                               *)
(***************************************************************************)
RegisteredIn(r, c) ==
    \E i \in DOMAIN slot_df : slot_df[i].rollno = r /\ slot_df[i].coursecode = c

ClashSignals(r, x, y) ==
    {i \in DOMAIN signals :
        /\ signals[i].kind = "CLASH"
        /\ signals[i].roll = r
        /\ {signals[i].ci, signals[i].cj} = {x, y}}

C10_OneClashPerPair ==
    pc = "alloc_setup" =>
        /\ \A i \in DOMAIN signals :
              signals[i].kind = "CLASH" /\ signals[i].ci # signals[i].cj
        /\ \A r \in Rolls : \A x, y \in ClashCourses :
              x # y => Cardinality(ClashSignals(r, x, y))
                          = IF RegisteredIn(r, x) /\ RegisteredIn(r, y) THEN 1 ELSE 0

\* a roll in three courses with its three clashes, and a roll of one course
C10_Witness ==
    /\ pc = "alloc_setup"
    /\ \E r \in Rolls :
          /\ \A c \in ClashCourses : RegisteredIn(r, c)
          /\ Cardinality({i \in DOMAIN signals : signals[i].roll = r}) = 3
    /\ \E r \in Rolls :
          Cardinality({c \in ClashCourses : RegisteredIn(r, c)}) = 1


(***************************************************************************)
(* C6.  Slots are independent: whatever the run has done before, the       *)
(* records and the capacity map that a slot ends with are those of         *)
(* allocate_for_slot on the slot's own registrations, the room table and   *)
(* the name lookup; every slot starts from the per-course capacities with  *)
(* no record, and so do the results the run keeps for the slot.            *)
(***************************************************************************)
RegistrationsOf(d, sl) == SelectSeq(reg_df, LAMBDA r : r.date = d /\ r.slot = sl)

OutcomeOf(d, sl) ==
    allocate_for_slot(d, sl, RegistrationsOf(d, sl), rooms_info, roll_to_name)

C6_SlotsIndependent ==
    /\ pc = "precheck" =>
          /\ allocations = <<>>
          /\ {room_caps[i].key : i \in DOMAIN room_caps} = SheetKeys
          /\ \A i \in DOMAIN room_caps :
                room_caps[i].val = BaseCapacity(room_caps[i].key)
    /\ pc = "returned" =>
          /\ allocations = OutcomeOf(date, slot).allocations
          /\ room_caps = OutcomeOf(date, slot).room_caps
    /\ \A s \in DOMAIN per_slot_room_caps :
          LET key == per_slot_room_caps[s].key
          IN  /\ per_slot_room_caps[s].val = OutcomeOf(key[1], key[2]).room_caps
              /\ SelectSeq(all_allocations,
                           LAMBDA a : a.date = key[1] /\ a.slot = key[2])
                     = OutcomeOf(key[1], key[2]).allocations

\* the evening slot aborted, the morning slot seated on the same rooms
C6_Witness ==
    /\ pc = "returned" /\ slot = "morning"
    /\ \E i \in DOMAIN signals :
          signals[i].kind = "CAPACITY" /\ signals[i].slot = "evening"
    /\ allocations # <<>>
    /\ Len(per_slot_room_caps) = 1

(***************************************************************************)
(* C7.  Determinism: the morning and the evening session of a day with the *)
(* same registrations in the same order are two runs of the engine on      *)
(* identical inputs; they end with the same allocation records, the same   *)
(* roster rows and the same usage rows (the session label apart), ties in  *)
(* course size and in building capacity included.                          *)
(***************************************************************************)
SessionRegs(sl) ==
    LET regs == RegistrationsOf("D1", sl)
    IN  [i \in DOMAIN regs |-> <<regs[i].coursecode, regs[i].rollno>>]

SessionRecords(sl) ==
    LET recs == SelectSeq(all_allocations, LAMBDA a : a.slot = sl)
    IN  [i \in DOMAIN recs |->
            <<recs[i].date, recs[i].building, recs[i].room,
              recs[i].coursecode, recs[i].rollno, recs[i].name>>]

SessionRoster(sl) ==
    LET rows == SelectSeq(overall_agg_df, LAMBDA r : r.Slot = sl)
    IN  [i \in DOMAIN rows |->
            <<rows[i].Date, rows[i].Building, rows[i].Room,
              rows[i].CourseCode, rows[i].RollNumbers, rows[i].Names>>]

SessionUsage(sl) ==
    LET rows == SelectSeq(seats_rows, LAMBDA r : r.Slot = sl)
    IN  [i \in DOMAIN rows |->
            <<rows[i].Date, rows[i].Building, rows[i].Room,
              rows[i].EffectiveCapacityPerSubject, rows[i].UsedSeats,
              rows[i].SeatsLeft>>]

SessionsAlike ==
    SessionRegs("morning") # <<>> /\ SessionRegs("morning") = SessionRegs("evening")

CoursesOf(r) == {c \in SlotCourses : RegisteredIn(r, c)}

RecordsOf(c, r) ==
    {i \in DOMAIN allocations :
        allocations[i].coursecode = c /\ allocations[i].rollno = r}

C11_ClashingRollSeated ==
    /\ pc = "precheck" => TotalStudents(course_to_rolls) = Demand
    /\ (pc = "returned" /\ Demand <= SheetCapacity) =>
          \A r \in Rolls :
              Cardinality(CoursesOf(r)) >= 2 =>
                  \A c \in CoursesOf(r) : Cardinality(RecordsOf(c, r)) = 1

(***************************************************************************)
(* C19.  The total capacity of the pre-check is the sum of the counters of *)
(* the capacity map, and the capacity of a building in the single-building *)
(* decision is the sum of the counters of the building's distinct rooms,   *)
(* on every room table, one that repeats a (building, room) key included.  *)
(***************************************************************************)
RECURSIVE SumCounters(_)
SumCounters(S) ==
    IF S = {} THEN 0
    ELSE LET k == CHOOSE x \in S : TRUE
         IN  Lookup(room_caps, k) + SumCounters(S \ {k})

C19_CapacityTotals ==
    /\ pc = "precheck" => total_capacity = SumCounters(SheetKeys)
    /\ pc = "course" =>
          LET building_cap == BuildingCap(building_rooms, room_caps)
          IN  \A i \in DOMAIN building_cap :
                  building_cap[i].val
                      = SumCounters({k \in SheetKeys : k[1] = building_cap[i].key})

(***************************************************************************)
(* C16.  C16_Original: there are a room table with pairwise distinct keys  *)
(* and a slot whose demand does not exceed the capacity for which some     *)
(* course ends with an unseated student.  C16_DistinctKeysSeatAll: on a    *)
(* room table with pairwise distinct keys a slot that passes the pre-check *)
(* ends every course with nobody unseated.                                 *)
(***************************************************************************)
DistinctKeys(rinfo) ==
    \A i, j \in DOMAIN rinfo :
        (rinfo[i].building = rinfo[j].building /\ rinfo[i].room = rinfo[j].room)
            => i = j

BuildingsUsed == {CurrentRecords[i].building : i \in DOMAIN CurrentRecords}

Sufficient == {b \in BuildingsOfSheet : BuildingCapAtBegin(b) >= Len(CurrentRolls)}

C17_TightestBuilding ==
    CourseDone =>
        /\ Sufficient # {} =>
              /\ single_building_found
              /\ chosen_building \in Sufficient
              /\ BuildingsUsed \subseteq {chosen_building}
              /\ \A b \in Sufficient :
                    BuildingCapAtBegin(chosen_building) <= BuildingCapAtBegin(b)
        /\ Cardinality(BuildingsUsed) >= 2 => Sufficient = {}

\* two buildings can hold the course; the tighter one, which the room sheet
\* lists second, has it
C17_Witness ==
    /\ CourseDone /\ remaining = <<>>
    /\ Cardinality(Sufficient) = 2
    /\ \E b \in Sufficient :
          BuildingCapAtBegin(b) > BuildingCapAtBegin(chosen_building)
    /\ rooms_info[1].building # chosen_building
    /\ BuildingsUsed = {chosen_building}

(***************************************************************************)
(* C18.  Courses are allocated largest first, courses of one size in the   *)
(* order of their first registration: in the list of the slot's records    *)
(* no record of a course comes before a record of a strictly larger        *)
(* course, nor before one of a course of the same size seen earlier.       *)
(***************************************************************************)
SizeOf(c) == Len(RegisteredRolls(c))

FirstRowOf(c) ==
    CHOOSE i \in DOMAIN slot_df :
        /\ slot_df[i].coursecode = c
        /\ \A j \in DOMAIN slot_df : slot_df[j].coursecode = c => i <= j

GoesBefore(c, d) ==
    \/ SizeOf(c) > SizeOf(d)
    \/ SizeOf(c) = SizeOf(d) /\ FirstRowOf(c) < FirstRowOf(d)

C18_LargestFirst ==
    /\ \A i, j \in DOMAIN allocations :
          (i < j /\ allocations[i].coursecode # allocations[j].coursecode)
              => GoesBefore(allocations[i].coursecode, allocations[j].coursecode)
    /\ \A i, j \in DOMAIN sorted_courses :
          i < j => GoesBefore(sorted_courses[i].key, sorted_courses[j].key)

\* the course registered first is the smaller one and is seated last
C18_Witness ==
    /\ pc = "returned" /\ Len(allocations) = 3
    /\ SizeOf(slot_df[1].coursecode) = 1
    /\ allocations[1].coursecode # slot_df[1].coursecode
    /\ allocations[3].coursecode = slot_df[1].coursecode

(***************************************************************************)
(* C20.  Seat conservation: after every step of the loops over the rooms,  *)
(* for each room the per-course capacity less the remaining counter is the *)
(* number of the slot's records in that room; the step lowers no counter   *)
(* but that of the room it fills and raises none.                          *)
(***************************************************************************)
Conserved ==
    \A key \in SheetKeys :
        BaseCapacity(key) - Lookup(room_caps, key) = SeatedIn(key)

SeatingStep ==
    /\ pc = "fill" /\ ki' = ki + 1
    /\ Conserved'
    /\ Keys(room_caps') = Keys(room_caps)
    /\ \A i \in DOMAIN room_caps :
          /\ room_caps'[i].val <= room_caps[i].val
          /\ room_caps[i].key # loop_keys[ki] => room_caps'[i].val = room_caps[i].val
          /\ room_caps[i].val - room_caps'[i].val
                 = Len(allocations') - Len(allocations)
             \/ room_caps[i].key # loop_keys[ki]

C20_SeatConservation ==
    [][(pc = "fill" /\ ki' # ki) => SeatingStep]_vars

\* a second course has taken the last seat of a room, another room untouched
C20_Witness ==
    /\ pc = "fill" /\ ci = 2 /\ ki >= 2
    /\ \E key \in SheetKeys :
          /\ Lookup(room_caps, key) = 0
          /\ BaseCapacity(key) = 2
          /\ SeatedOfCurrentIn(key) = 1
    /\ \E key \in SheetKeys :
          Lookup(room_caps, key) = BaseCapacity(key) /\ BaseCapacity(key) > 0


(***************************************************************************)
(* The outputs of a run that has written them (pc is "pdf" or "done").     *)
(***************************************************************************)
OutputsWritten == pc \in {"pdf", "done"}

RecordsIn(d, sl, b, rn) ==
    SelectSeq(all_allocations,
              LAMBDA a : a.date = d /\ a.slot = sl /\ a.building = b /\ a.room = rn)

RecordsOfRow(row) ==
    SelectSeq(RecordsIn(row.Date, row.Slot, row.Building, row.Room),
              LAMBDA a : a.coursecode = row.CourseCode)

(***************************************************************************)
(* C12.  Every usage row has used = base per-course capacity - remaining,  *)
(* used + left = base, left the slot's final counter of the room, and used *)
(* the number of the slot's allocation records in the row's room.          *)
(***************************************************************************)
C12_UsageRows ==
    OutputsWritten =>
        \A n \in DOMAIN seats_rows :
            LET row == seats_rows[n]
                key == <<row.Building, row.Room>>
            IN  /\ row.EffectiveCapacityPerSubject = BaseCapacity(key)
                /\ row.SeatsLeft
                       = Lookup(Lookup(per_slot_room_caps, <<row.Date, row.Slot>>), key)
                /\ row.UsedSeats = BaseCapacity(key) - row.SeatsLeft
                /\ row.UsedSeats + row.SeatsLeft = BaseCapacity(key)
                /\ row.UsedSeats
                       = Len(RecordsIn(row.Date, row.Slot, row.Building, row.Room))

\* one room of two seats, no buffer, dense, a course of two: used 2, left 0
C12_Witness ==
    /\ pc = "done" /\ Len(class_df) = 1 /\ buffer = 0 /\ mode = "dense"
    /\ \E n \in DOMAIN seats_rows :
          /\ seats_rows[n].UsedSeats = 2 /\ seats_rows[n].SeatsLeft = 0
          /\ \A a \in Range(RecordsIn(seats_rows[n].Date, seats_rows[n].Slot,
                                      seats_rows[n].Building, seats_rows[n].Room)) :
                a.coursecode = "A"

(***************************************************************************)
(* C13.  The roster rows partition the allocation records: a record is in  *)
(* the one row of its (date, session, building, room, course); no row is   *)
(* empty; a row lists the rolls of its records in seating order, and the   *)
(* name at a position is the name of the roll at that position.            *)
(***************************************************************************)
RowKey(row) == <<row.Date, row.Slot, row.Building, row.Room, row.CourseCode>>

C13_RosterPartition ==
    OutputsWritten =>
        /\ \A m, n \in DOMAIN overall_agg_df :
              RowKey(overall_agg_df[m]) = RowKey(overall_agg_df[n]) => m = n
        /\ \A i \in DOMAIN all_allocations :
              LET a == all_allocations[i]
              IN  \E n \in DOMAIN overall_agg_df :
                      /\ RowKey(overall_agg_df[n])
                             = <<a.date, a.slot, a.building, a.room, a.coursecode>>
                      /\ a.rollno \in Range(overall_agg_df[n].RollNumbers)
        /\ \A n \in DOMAIN overall_agg_df :
              LET row == overall_agg_df[n]
                  recs == RecordsOfRow(row)
              IN  /\ row.RollNumbers # <<>>
                  /\ row.RollNumbers = [i \in DOMAIN recs |-> recs[i].rollno]
                  /\ Len(row.Names) = Len(row.RollNumbers)
                  /\ \A i \in DOMAIN row.RollNumbers :
                        row.Names[i] = NameOf(roll_to_name, row.RollNumbers[i])
        /\ SumSeq([n \in DOMAIN overall_agg_df |->
                      Len(overall_agg_df[n].RollNumbers)]) = Len(all_allocations)

\* a row of two rolls, one of them without a name, and a second row
C13_Witness ==
    /\ pc = "done" /\ Len(overall_agg_df) >= 2
    /\ \E n \in DOMAIN overall_agg_df :
          /\ overall_agg_df[n].RollNumbers = <<"R1", "R2">>
          /\ overall_agg_df[n].Names = <<"N1", UnknownName>>

(***************************************************************************)
(* C14.  The render units are in one-to-one correspondence with the roster *)
(* rows: a unit holds the (roll, name) pairs of the one roster row of its  *)
(* date, session, room and course, and every roster row has its unit.      *)
(***************************************************************************)
RowPairs(row) ==
    [i \in DOMAIN row.RollNumbers |-> <<row.RollNumbers[i], row.Names[i]>>]

RowsOfUnit(u) ==
    {n \in DOMAIN overall_agg_df :
        /\ overall_agg_df[n].Date = u.date /\ overall_agg_df[n].Slot = u.slot
        /\ overall_agg_df[n].Room = u.room /\ overall_agg_df[n].CourseCode = u.course}

C14_OneUnitPerRosterRow ==
    pc = "done" =>
        /\ Len(pdf_units) = Len(overall_agg_df)
        /\ \A k \in DOMAIN pdf_units :
              /\ Cardinality(RowsOfUnit(pdf_units[k])) = 1
              /\ \A n \in RowsOfUnit(pdf_units[k]) :
                    pdf_units[k].students = RowPairs(overall_agg_df[n])

(***************************************************************************)
(* C15.  When no scheduled course has an enrolled roll (every session cell *)
(* blank or NO EXAM included), the run fails with the error of the         *)
(* registration builder before any slot is clash-checked or allocated, and *)
(* has no allocation record, roster row or usage row.                      *)
(***************************************************************************)
SessionCells == {tt_df[i].morning : i \in DOMAIN tt_df} \cup {tt_df[i].evening : i \in DOMAIN tt_df}

ScheduledCourses ==
    UNION {Range(cell) : cell \in {x \in SessionCells : x # <<>> /\ x[1] # "NO EXAM"}}

ZeroRegistrations ==
    \A c \in ScheduledCourses : \A i \in DOMAIN cr_df : cr_df[i].course_code # c

C15_NoRegistrationsFails ==
    (ZeroRegistrations /\ pc # "start") =>
        /\ pc = "failed"
        /\ signals = <<[kind |-> "UNEXPECTED"]>>
        /\ reg_df = <<>> /\ slot_df = <<>> /\ rooms_info = <<>>
        /\ all_allocations = <<>> /\ per_slot_room_caps = <<>>
        /\ overall_agg_df = <<>> /\ seats_rows = <<>> /\ pdf_units = <<>>
        /\ AllocIdle

\* a course is scheduled and rolls are enrolled, but in another course
C15_Witness ==
    /\ pc = "failed"
    /\ ScheduledCourses # {} /\ cr_df # <<>>
    /\ \E i \in DOMAIN tt_df : tt_df[i].evening = <<"NO EXAM">>


(***************************************************************************)
(* C21.  The aggregator writes exactly one usage row for every processed   *)
(* slot and every room key, built from the slot's final capacity map; a    *)
(* slot aborted by the pre-check has rows of used 0 and left = base; this  *)
(* holds of every run, one without any allocation record included.         *)
(***************************************************************************)
ProcessedSlots == {per_slot_room_caps[s].key : s \in DOMAIN per_slot_room_caps}

UsageRowsOf(sk, key) ==
    {n \in DOMAIN seats_rows :
        /\ <<seats_rows[n].Date, seats_rows[n].Slot>> = sk
        /\ <<seats_rows[n].Building, seats_rows[n].Room>> = key}

SlotAborted(sk) ==
    \E i \in DOMAIN signals :
        /\ signals[i].kind = "CAPACITY"
        /\ <<signals[i].date, signals[i].slot>> = sk

C21_UsageRowPerSlotAndRoom ==
    OutputsWritten =>
        /\ Len(seats_rows) = Cardinality(ProcessedSlots) * Cardinality(SheetKeys)
        /\ \A sk \in ProcessedSlots : \A key \in SheetKeys :
              /\ Cardinality(UsageRowsOf(sk, key)) = 1
              /\ \A n \in UsageRowsOf(sk, key) :
                    /\ seats_rows[n].SeatsLeft
                           = Lookup(Lookup(per_slot_room_caps, sk), key)
                    /\ SlotAborted(sk) =>
                          /\ seats_rows[n].UsedSeats = 0
                          /\ seats_rows[n].SeatsLeft = BaseCapacity(key)

=============================================================================
